---- MODULE Spec2Model ----
(***************************************************************************)
(* State-machine model of tv1-app.py, the Streamlit script "NSE Live       *)
(* Turnover Monitor".  One run of the script is: read the operator input,  *)
(* initialise the session state once, check the market-hours gate, then    *)
(* either wait 60 s and rerun, or process every symbol (fetch, substitute, *)
(* percent change, row, history write), render, sleep 300 s and rerun.     *)
(*                                                                         *)
(* Turnover values are integers counting hundredths of a crore (the code   *)
(* rounds every fetched value to 2 decimals); percent changes are integers *)
(* counting hundredths of a percent.  Times are seconds since local        *)
(* midnight.  Python's None is the value None below.                       *)
(***************************************************************************)
EXTENDS Integers, Sequences, FiniteSets, TLC

VARIABLES
    symbols_input,       \* the text_input widget's value, a sequence of characters
    symbols,             \* the script variable symbols (a list of symbols)
    in_session_state,    \* "previous_turnover" in st.session_state
    previous_turnover,   \* st.session_state.previous_turnover (a dict)
    rows,                \* the script variable rows
    idx,                 \* position of the for loop in symbols (1-based)
    pc,                  \* where the script run stands
    clock,               \* datetime.now().time(), seconds since midnight
    rendered,            \* the table last passed to st.markdown
    obs,                 \* per row of this run: what the fetch returned, what the dict held
    fetchedAt,           \* the clock values at which this run issued its fetches
    reads,               \* per symbol: dict reads (.get) made by this run
    writes,              \* per symbol: dict writes made by this run
    argPrev,             \* history value handed to the per-symbol step (function check)
    argFetch,            \* fetch result handed to the per-symbol step (function check)
    argRow               \* the rows the per-symbol step produced for them

vars ==
    << symbols_input, symbols, in_session_state, previous_turnover, rows, idx, pc,
       clock, rendered, obs, fetchedAt, reads, writes, argPrev, argFetch, argRow >>

cycleVars ==
    << symbols_input, symbols, in_session_state, previous_turnover, rows, idx, pc,
       clock, rendered, obs, fetchedAt, reads, writes >>

fnVars == << argPrev, argFetch, argRow >>

----------------------------------------------------------------------------
(* Bounds of the model *)

\* largest turnover reading of the cycle model, in hundredths of a crore
MaxTurnover == 2

\* largest history value and reading of the per-symbol function check
MaxArg == 33

----------------------------------------------------------------------------
(* Program constants *)

None == -1

WaitSeconds == 60

RefreshSeconds == 300

FetchTimeout == 5

MarketOpenHour == 9

MarketOpenMinute == 20

MarketCloseHour == 15

DaySeconds == 86400

\* rupees in one hundredth of a crore: round(raw / 1e7, 2) counts these
RupeesPerUnit == 100000

dtime(h, m) == h * 3600 + m * 60

MarketOpen == dtime(MarketOpenHour, MarketOpenMinute)

MarketClose == dtime(MarketCloseHour, 0)

----------------------------------------------------------------------------
(* Operator input: symbols_input.split(","), then strip() and upper() *)

Range(seq) == { seq[k] : k \in DOMAIN seq }

upper(ch) ==
    CASE ch = "a" -> "A"
      [] ch = "b" -> "B"
      [] OTHER -> ch

RECURSIVE lstrip(_)
lstrip(s) == IF s # <<>> /\ Head(s) = " " THEN lstrip(Tail(s)) ELSE s

RECURSIVE rstrip(_)
rstrip(s) ==
    IF s # <<>> /\ s[Len(s)] = " " THEN rstrip(SubSeq(s, 1, Len(s) - 1)) ELSE s

strip(s) == rstrip(lstrip(s))

upperAll(s) == [k \in DOMAIN s |-> upper(s[k])]

\* str.split(","): always at least one piece; an empty piece between or after commas
RECURSIVE split(_, _)
split(s, piece) ==
    IF s = <<>> THEN << piece >>
    ELSE IF Head(s) = "," THEN << piece >> \o split(Tail(s), <<>>)
    ELSE split(Tail(s), Append(piece, Head(s)))

ParseSymbols(input) ==
    LET parts == split(input, <<>>)
    IN  [k \in DOMAIN parts |-> upperAll(strip(parts[k]))]

\* the inputs the operator may have typed (one-letter symbols stand for the
\* tickers): two symbols with blanks and lower case, a repeated symbol, an
\* empty entry, a single symbol
Inputs ==
    { << " ", "a", ",", " ", "B" >>,     \* " a, B"
      << "A", ",", "A" >>,               \* "A,A"
      << "A", ",", " " >>,               \* "A, "
      << "b" >> }                        \* "b"

----------------------------------------------------------------------------
(* Clock.  The model follows the clock at the instants around the two ends *)
(* of the market window; a blocking call moves it to any such instant that *)
(* its duration allows, wrapping at midnight.                              *)

TimePoints ==
    { MarketOpen - WaitSeconds, MarketOpen,
      MarketClose - FetchTimeout, MarketClose, MarketClose + FetchTimeout }

Elapsed(from, to) == (to - from) % DaySeconds

is_market_time(now) == MarketOpen <= now /\ now <= MarketClose

----------------------------------------------------------------------------
(* get_live_turnover: the HTTP response, as the fetcher sees it *)

\* round(x, 2) of the quotient n / d (d > 0), counted in hundredths: the nearest
\* integer.  The quotient is computed in binary floating point, so when n / d
\* lies exactly half way either neighbour can come out.
round2(n, d) ==
    LET q == n \div d
        r == n - q * d
    IN  IF 2 * r < d THEN { q }
        ELSE IF 2 * r > d THEN { q + 1 }
        ELSE { q, q + 1 }

\* what can go wrong inside the try block: the request fails, it times out, the
\* body is no JSON, the JSON lacks priceInfo / totalTradedValue
FailureKinds == { "error", "timeout", "malformed", "missing" }

Responses ==
    [ kind : FailureKinds, raw : { 0 } ]
        \cup [ kind : { "ok" },
               raw : { k * RupeesPerUnit + off :
                         k \in 0 .. MaxTurnover, off \in { 0, 49999 } } ]

\* the exception the try block raises for a response ("none": it returns)
Raises(resp) ==
    CASE resp.kind = "error" -> "ConnectionError"
      [] resp.kind = "timeout" -> "Timeout"
      [] resp.kind = "malformed" -> "JSONDecodeError"
      [] resp.kind = "missing" -> "KeyError"
      [] OTHER -> "none"

\* (a mutant: only the request's own errors are caught)
CaughtRequestErrors(exc) == exc \in { "ConnectionError", "Timeout" }

\* "except Exception": every one of these derives from Exception
Caught(exc) == exc \in { "ConnectionError", "Timeout", "JSONDecodeError", "KeyError" }

\* the outcomes of get_live_turnover for a response: it returns the turnover
\* in hundredths of a crore, returns None for a caught exception, or lets an
\* exception escape
get_live_turnover(resp) ==
    LET exc == Raises(resp)
    IN  IF exc = "none"
          THEN { [ raised |-> FALSE, value |-> v ] :
                 v \in round2(resp.raw, RupeesPerUnit) }
          ELSE IF Caught(exc) THEN { [ raised |-> FALSE, value |-> None ] }
          ELSE { [ raised |-> TRUE, value |-> None ] }

tradingview_link(s) == << "NSE%3A", s >>

----------------------------------------------------------------------------
(* The body of the for loop, for one symbol *)

\* Python truthiness of a history value: None and 0 are false
Truthy(v) == v # None /\ v # 0

\* (a mutant: a failed fetch always yields 0)
SubstituteZero(current, prev) == IF current = None THEN 0 ELSE current

\* "if current is None: current = prev if prev else 0"
Substitute(current, prev) ==
    IF current = None THEN (IF Truthy(prev) THEN prev ELSE 0) ELSE current

\* (a mutant: a first observation is compared with 0)
BaselineZero(prev, current) == IF prev = None THEN 0 ELSE prev

\* "if prev is None: prev = current"
Baseline(prev, current) == IF prev = None THEN current ELSE prev

\* (a mutant: the quotient is cut off, not rounded)
pct_change_truncated(prev, current) ==
    IF prev # 0 THEN { (10000 * (current - prev)) \div prev } ELSE { 0 }

\* (a mutant: the ratio current / prev, the difference forgotten)
pct_change_ratio(prev, current) ==
    IF prev # 0 THEN round2(10000 * current, prev) ELSE { 0 }

\* round(((current - prev) / prev) * 100 if prev != 0 else 0.0, 2), in hundredths
pct_change(prev, current) ==
    IF prev # 0 THEN round2(10000 * (current - prev), prev) ELSE { 0 }

\* (a mutant: the dict is written only when the fetch succeeded)
WrittenOnSuccess(fetched, held) == IF fetched = None THEN held ELSE fetched

\* the value written back: st.session_state.previous_turnover[s] = current
Written(fetched, held) == Substitute(fetched, held)

\* the rows the body can append for symbol s, given the fetch result and the
\* value the dict held for s
BuildRows(s, fetched, held, now) ==
    LET current == Substitute(fetched, held)
        prev == Baseline(held, current)
    IN  { [ Symbol |-> s, Link |-> tradingview_link(s), Previous |-> prev,
            Current |-> current, PctChange |-> q, Timestamp |-> now ] :
          q \in pct_change(prev, current) }

\* dict.get(s)
Get(d, s) == IF s \in DOMAIN d THEN d[s] ELSE None

\* d[s] = v
Put(d, s, v) == [ x \in DOMAIN d \cup { s } |-> IF x = s THEN v ELSE d[x] ]

----------------------------------------------------------------------------
(* The script *)

NoCount == [ s \in {} |-> 0 ]

\* lines 82-83: the dict is created only when the session has none
\* (a mutant: created anew by every run)
AlwaysInitialHistory(present, d, syms) == [ s \in Range(syms) |-> None ]

InitialHistory(present, d, syms) ==
    IF present THEN d ELSE [ s \in Range(syms) |-> None ]

NotApplied == [ done |-> FALSE, rows |-> {}, written |-> None ]

Count(f, s) == IF s \in DOMAIN f THEN f[s] ELSE 0

Init ==
    /\ symbols_input \in Inputs
    /\ symbols = <<>>
    /\ in_session_state = FALSE
    /\ previous_turnover = NoCount
    /\ rows = <<>>
    /\ idx = 0
    /\ pc = "top"
    /\ clock \in TimePoints
    /\ rendered = <<>>
    /\ obs = <<>>
    /\ fetchedAt = <<>>
    /\ reads = NoCount
    /\ writes = NoCount
    /\ argPrev = None
    /\ argFetch = None
    /\ argRow = NotApplied

\* lines 20-38 and 82-83: a (re)run of the script starts.  The handshake
\* request of line 38 stands outside any try block: when it raises, the run
\* ends with the exception and nothing reruns the script.
Top ==
    /\ pc = "top"
    /\ symbols' = ParseSymbols(symbols_input)
    /\ \E handshake \in { "ok", "ConnectionError" } :
         IF handshake = "ok"
           THEN /\ previous_turnover' =
                       InitialHistory(in_session_state, previous_turnover, symbols')
                /\ in_session_state' = TRUE
                /\ pc' = "gate"
           ELSE /\ pc' = "crashed"
                /\ UNCHANGED << previous_turnover, in_session_state >>
    /\ UNCHANGED << symbols_input, rows, idx, clock, rendered, obs, fetchedAt,
                    reads, writes >>
    /\ UNCHANGED fnVars

\* lines 89-90: outside market hours, warn and go to sleep
GateClosed ==
    /\ pc = "gate"
    /\ ~ is_market_time(clock)
    /\ pc' = "waiting"
    /\ UNCHANGED << symbols_input, symbols, in_session_state, previous_turnover,
                    rows, idx, clock, rendered, obs, fetchedAt, reads, writes >>
    /\ UNCHANGED fnVars

\* lines 91-92: time.sleep(60), then st.experimental_rerun()
Rerun ==
    /\ symbols' = <<>>
    /\ rows' = <<>>
    /\ idx' = 0
    /\ obs' = <<>>
    /\ fetchedAt' = <<>>
    /\ reads' = NoCount
    /\ writes' = NoCount
    /\ pc' = "top"
    /\ UNCHANGED << symbols_input, in_session_state, previous_turnover, rendered >>
    /\ UNCHANGED fnVars

WaitRerun ==
    /\ pc = "waiting"
    /\ \E t \in TimePoints :
         /\ Elapsed(clock, t) >= WaitSeconds
         /\ clock' = t
    /\ Rerun

\* lines 89, 98: inside market hours the script falls through to the loop
GateOpen ==
    /\ pc = "gate"
    /\ is_market_time(clock)
    /\ rows' = <<>>
    /\ idx' = 1
    /\ pc' = "loop"
    /\ UNCHANGED << symbols_input, symbols, in_session_state, previous_turnover,
                    clock, rendered, obs, fetchedAt, reads, writes >>
    /\ UNCHANGED fnVars

\* lines 100-124: one iteration of the for loop.  The fetch is issued at the
\* current clock value and returns within its timeout; an exception that
\* get_live_turnover lets escape ends the run.
ProcessSymbol ==
    /\ pc = "loop"
    /\ idx <= Len(symbols)
    /\ LET s == symbols[idx]
           held == Get(previous_turnover, s)
       IN  \E resp \in Responses, t \in TimePoints :
             /\ Elapsed(clock, t) <= FetchTimeout
             /\ resp.kind = "timeout" => Elapsed(clock, t) = FetchTimeout
             /\ fetchedAt' = Append(fetchedAt, clock)
             /\ clock' = t
             /\ \E out \in get_live_turnover(resp) :
                  IF out.raised
                    THEN /\ pc' = "crashed"
                         /\ UNCHANGED << rows, previous_turnover, obs, reads,
                                         writes, idx >>
                    ELSE /\ \E row \in BuildRows(s, out.value, held, t) :
                              rows' = Append(rows, row)
                         /\ previous_turnover' =
                                Put(previous_turnover, s, Written(out.value, held))
                         /\ obs' = Append(obs, [ fetched |-> out.value,
                                                 held |-> held ])
                         /\ reads' = Put(reads, s, Count(reads, s) + 1)
                         /\ writes' = Put(writes, s, Count(writes, s) + 1)
                         /\ idx' = idx + 1
                         /\ pc' = IF idx = Len(symbols) THEN "render" ELSE "loop"
    /\ UNCHANGED << symbols_input, symbols, in_session_state, rendered >>
    /\ UNCHANGED fnVars

\* lines 127-139: the table is built from rows and displayed
Render ==
    /\ pc = "render"
    /\ rendered' = rows
    /\ pc' = "idle"
    /\ UNCHANGED << symbols_input, symbols, in_session_state, previous_turnover,
                    rows, idx, clock, obs, fetchedAt, reads, writes >>
    /\ UNCHANGED fnVars

\* lines 140-141: time.sleep(300), then st.experimental_rerun()
IdleRerun ==
    /\ pc = "idle"
    /\ \E t \in TimePoints :
         /\ Elapsed(clock, t) >= RefreshSeconds
         /\ clock' = t
    /\ Rerun

Next ==
    \/ Top
    \/ GateClosed
    \/ WaitRerun
    \/ GateOpen
    \/ ProcessSymbol
    \/ Render
    \/ IdleRerun

Spec == Init /\ [][Next]_vars

----------------------------------------------------------------------------
(* The per-symbol step alone, over a wider range of values: the loop body   *)
(* applied to one history value and one fetch result.                       *)

Values(max) == { None } \cup (0 .. max)

InitStep ==
    /\ symbols_input = << "A" >>
    /\ symbols = << << "A" >> >>
    /\ in_session_state = TRUE
    /\ argPrev \in Values(MaxArg)
    /\ argFetch \in Values(MaxArg)
    /\ previous_turnover = [ s \in { << "A" >> } |-> argPrev ]
    /\ rows = <<>>
    /\ idx = 1
    /\ pc = "step"
    /\ clock = MarketOpen
    /\ rendered = <<>>
    /\ obs = <<>>
    /\ fetchedAt = <<>>
    /\ reads = NoCount
    /\ writes = NoCount
    /\ argRow = NotApplied

ApplyStep ==
    /\ pc = "step"
    /\ ~ argRow.done
    /\ argRow' = [ done |-> TRUE,
                   rows |-> BuildRows(symbols[idx], argFetch, argPrev, clock),
                   written |-> Written(argFetch, argPrev) ]
    /\ UNCHANGED << argPrev, argFetch >>
    /\ UNCHANGED cycleVars

NextStep == ApplyStep

StepSpec == InitStep /\ [][NextStep]_vars

\* every blocking call of the script returns (sleep(60), sleep(300), a fetch
\* with timeout=5), so a run always takes its next step
FairSpec == Init /\ [][Next]_vars /\ WF_vars(Next)

----------------------------------------------------------------------------
(* Properties *)

\* position k holds the first / the last occurrence of its symbol among the
\* first n entries of the list
FirstOcc(k) == \A j \in 1 .. (k - 1) : symbols[j] # symbols[k]

LastOcc(k, n) == \A j \in (k + 1) .. n : symbols[j] # symbols[k]

\* the row a table shows last for symbol s
IsLastRowFor(table, k, s) ==
    /\ table[k].Symbol = s
    /\ \A j \in (k + 1) .. Len(table) : table[j].Symbol # s

\* a row is shown for every loop iteration made
RowsMatchObs == Len(rows) = Len(obs) /\ Len(rows) <= Len(symbols)

\* C1: when a cycle finishes, the dict holds for every tracked symbol the
\* Current Turnover of the row the cycle produced for it (the row produced
\* last, should the list name the symbol twice), whatever the fetches did.
C1_HistoryIsRowCurrent ==
    pc = "render" =>
        \A s \in Range(symbols) :
            /\ s \in DOMAIN previous_turnover
            /\ \E k \in DOMAIN rows :
                 /\ IsLastRowFor(rows, k, s)
                 /\ previous_turnover[s] = rows[k].Current

\* a finished cycle of two symbols, one fetch failed, one returned a new value
C1_Witness ==
    /\ pc = "render"
    /\ Len(rows) = 2
    /\ symbols[1] # symbols[2]
    /\ obs[1].fetched = None
    /\ obs[2].fetched > 0
    /\ obs[2].held # None
    /\ obs[2].fetched # obs[2].held

\* C2: no turnover fetch is issued at a time outside [09:20:00, 15:00:00],
\* the later fetches of a cycle included.
C2_NoFetchOutsideMarketHours ==
    \A k \in DOMAIN fetchedAt : is_market_time(fetchedAt[k])

\* C3: a cycle that starts shows one row per entry of the symbol list, in
\* input order, and leaves every tracked symbol with a history value; a run
\* ends with an exception only before its cycle starts, never inside the loop.
C3_OneRowPerSymbol ==
    /\ RowsMatchObs
    /\ \A k \in DOMAIN rows : rows[k].Symbol = symbols[k]
    /\ pc = "loop" => Len(rows) = idx - 1 /\ idx <= Len(symbols)
    /\ pc \in { "render", "idle" } =>
          /\ Len(rows) = Len(symbols)
          /\ \A s \in Range(symbols) :
                s \in DOMAIN previous_turnover /\ previous_turnover[s] # None
    /\ pc = "crashed" => idx = 0 /\ rows = <<>>

\* a finished cycle whose first fetch failed and whose second did not
C3_Witness ==
    /\ pc = "render"
    /\ Len(rows) = 2
    /\ obs[1].fetched = None
    /\ obs[2].fetched # None

\* C4: when the fetch for a symbol fails, the row shows the held value v (0
\* when none is held) as current and as previous, with change 0.0, and the
\* dict holds v afterwards: failures leave the history value frozen.
C4_FailureSubstitutes ==
    /\ RowsMatchObs
    /\ \A k \in DOMAIN obs :
         obs[k].fetched = None =>
            LET v == IF obs[k].held = None THEN 0 ELSE obs[k].held
            IN  /\ rows[k].Current = v
                /\ rows[k].Previous = v
                /\ rows[k].PctChange = 0
                /\ LastOcc(k, Len(rows)) => previous_turnover[symbols[k]] = v

\* a failed fetch for a symbol whose held value is positive, in a later cycle
\* which the previous cycle's table shows to have had the same value
C4_Witness ==
    /\ pc = "render"
    /\ rendered # <<>>
    /\ \E k \in DOMAIN obs :
         /\ obs[k].fetched = None
         /\ obs[k].held > 0
         /\ rendered[k].Current = obs[k].held

\* C5: a symbol with no history value yields a row with change 0.0 and
\* previous equal to current, whatever the fetch returned, and the dict then
\* holds that current value.
C5_ColdStart ==
    /\ RowsMatchObs
    /\ \A k \in DOMAIN obs :
         obs[k].held = None =>
            /\ rows[k].Current = (IF obs[k].fetched = None THEN 0 ELSE obs[k].fetched)
            /\ rows[k].Previous = rows[k].Current
            /\ rows[k].PctChange = 0
            /\ LastOcc(k, Len(rows)) =>
                  previous_turnover[symbols[k]] = rows[k].Current

\* a first cycle with one fetch failed and one positive reading
C5_Witness ==
    /\ pc = "render"
    /\ Len(obs) = 2
    /\ obs[1].held = None
    /\ obs[2].held = None
    /\ obs[1].fetched > 0
    /\ obs[2].fetched = None

\* C6: with previous the held value (the current value when none is held):
\* if previous # 0 the change shown is a nearest hundredth of
\* (current - previous) / previous * 100, and if previous = 0 it is 0.0.
C6_PercentChange ==
    argRow.done =>
        /\ argRow.rows # {}
        /\ \A row \in argRow.rows :
             /\ row.Current = (IF argFetch # None THEN argFetch
                               ELSE IF argPrev = None THEN 0 ELSE argPrev)
             /\ row.Previous = (IF argPrev = None THEN row.Current ELSE argPrev)
             /\ row.Previous # 0 =>
                   LET e == row.PctChange * row.Previous
                              - 10000 * (row.Current - row.Previous)
                   IN  2 * e <= row.Previous /\ 2 * (0 - e) <= row.Previous
             /\ row.Previous = 0 => row.PctChange = 0

\* held 3, reading 5: the quotient 66.666... is shown as 66.67
C6_Witness ==
    /\ argRow.done
    /\ argPrev = 3
    /\ argFetch = 5
    /\ \E row \in argRow.rows : row.PctChange = 6667

\* C7: when the dict already holds the reading r the fetch returns, the row
\* shows change 0.0 and the dict still holds r afterwards, for r = 0 too.
C7_Idempotent ==
    /\ RowsMatchObs
    /\ \A k \in DOMAIN obs :
         (obs[k].fetched # None /\ obs[k].fetched = obs[k].held) =>
            /\ rows[k].PctChange = 0
            /\ rows[k].Current = obs[k].held
            /\ LastOcc(k, Len(rows)) =>
                  previous_turnover[symbols[k]] = obs[k].held

\* a cycle in which one symbol repeats a positive reading and another repeats 0
C7_Witness ==
    /\ pc = "render"
    /\ Len(obs) = 2
    /\ obs[1].fetched = obs[1].held
    /\ obs[1].fetched > 0
    /\ obs[2].fetched = obs[2].held
    /\ obs[2].fetched = 0

\* C8: in every completed cycle, for every operator input, the dict holds an
\* entry for each tracked symbol and the cycle read it once and wrote it once.
C8_ReadOnceWrittenOnce ==
    pc = "render" =>
        \A s \in Range(symbols) :
            /\ s \in DOMAIN previous_turnover
            /\ Count(reads, s) = 1
            /\ Count(writes, s) = 1

\* C9: after an ACTIVE gate check come, in this order, the whole loop, one
\* render, the 300 s sleep and the next gate check, nothing interleaved; and a
\* further gate check always follows.
C9_CycleOrderAndRecurrence ==
    /\ [][ /\ (pc = "gate" /\ is_market_time(clock)) => pc' = "loop" /\ idx' = 1
           /\ pc = "loop" =>
                 /\ pc' = (IF idx = Len(symbols) THEN "render" ELSE "loop")
                 /\ idx' = idx + 1
                 /\ rendered' = rendered
           /\ pc = "render" => pc' = "idle" /\ rendered' = rows /\ clock' = clock
           /\ pc = "idle" =>
                 pc' = "top" /\ Elapsed(clock, clock') >= RefreshSeconds ]_vars
    /\ (pc = "idle") ~> (pc = "gate")

\* C10: the Previous Turnover a cycle shows for a symbol is the Current
\* Turnover the previous completed cycle showed for it (first row of the one,
\* last row of the other, should the list name the symbol twice).
C10_PreviousIsLastCurrent ==
    (pc \in { "loop", "render" } /\ rendered # <<>>) =>
        \A k \in DOMAIN rows :
            FirstOcc(k) =>
                \E j \in DOMAIN rendered :
                    /\ IsLastRowFor(rendered, j, rows[k].Symbol)
                    /\ rows[k].Previous = rendered[j].Current

\* a second cycle in which a reading differs from the positive value shown before
C10_Witness ==
    /\ pc = "render"
    /\ rendered # <<>>
    /\ \E k \in DOMAIN rows :
         /\ rows[k].Previous > 0
         /\ rows[k].Current # rows[k].Previous
         /\ rows[k].PctChange # 0

====
